---- MODULE Spec2Model ----
(***************************************************************************)
(* Model of zipline_poloniex/bundle.py: the ingest function of the         *)
(* Poloniex bundle (write_assets, prepare_data, fetch_trades,              *)
(* make_candle_stick) with the collaborators it calls (the currency        *)
(* metadata source, the trade history endpoint, zipline's asset writer,    *)
(* minute bar writer and cache).                                           *)
(*                                                                         *)
(* Time is counted in seconds from midnight of day 0, on a scaled clock:   *)
(* a minute has SecondsPerMinute seconds, a day MinutesPerDay minutes.     *)
(* A pandas.Timestamp is its number of seconds; a Timedelta likewise.      *)
(***************************************************************************)
EXTENDS Integers, Sequences, FiniteSets, TLC

\* ---------------------------------------------------------------- bounds
\* Scaled clock (the source's minute has 60 seconds, its day 24*60 minutes).
SecondsPerMinute ==
  2

MinutesPerDay ==
  3

\* Sessions known to the exchange calendar: days 0 .. MaxDays.
MaxDays ==
  2

\* Longest trade list handed to make_candle_stick on its own.
MaxTrades ==
  3

SecondsPerDay ==
  SecondsPerMinute * MinutesPerDay

\* pandas' missing value (NaN) in a column; every rate and volume is >= 0.
NaN ==
  -1

\* ------------------------------------------------------ helper operators
Range(s) ==
  {s[i] : i \in DOMAIN s}

Max(S) ==
  CHOOSE x \in S : \A y \in S : y <= x

Min(S) ==
  CHOOSE x \in S : \A y \in S : x <= y

RECURSIVE SumTotal(_)
SumTotal(s) ==
  IF s = <<>> THEN 0 ELSE s[1].total + SumTotal(Tail(s))

\* ------------------------------------------------------ make_candle_stick
\* A trades frame is a sequence of rows [date, rate, total]; `date` is the
\* DatetimeIndex set by fetch_trades, the row order is the order received.

\* Timestamp floored to its '1T' bin: the bin's left edge, which labels it.
floor_minute(t) ==
  (t \div SecondsPerMinute) * SecondsPerMinute

\* resample() on an index that is not monotonic first sorts the frame by
\* its index with a stable sort (mergesort): rows of equal date keep their
\* order.  Insertion of the last row behind every row not later than it.
sort_index_skipped(s) ==
  s

RECURSIVE sort_index(_)
sort_index(s) ==
  IF s = <<>> THEN <<>>
  ELSE LET r == sort_index(SubSeq(s, 1, Len(s) - 1))
           x == s[Len(s)]
           k == Cardinality({i \in DOMAIN r : r[i].date <= x.date})
       IN  SubSeq(r, 1, k) \o <<x>> \o SubSeq(r, k + 1, Len(r))

\* The bins of resample('1T'): every minute from the bin of the earliest row
\* to the bin of the latest row; none for an empty frame.
resample_bins(sorted) ==
  IF sorted = <<>> THEN <<>>
  ELSE LET lo == floor_minute(sorted[1].date) \div SecondsPerMinute
           hi == floor_minute(sorted[Len(sorted)].date) \div SecondsPerMinute
       IN  [i \in 1..(hi - lo + 1) |-> (lo + i - 1) * SecondsPerMinute]

\* The rows of the sorted frame that fall in the bin labelled b.
bin_rows(sorted, b) ==
  SelectSeq(sorted, LAMBDA r : floor_minute(r.date) = b)

\* .sum() of a bin; an empty bin has no value.
resample_sum(rows) ==
  IF rows = <<>> THEN NaN ELSE SumTotal(rows)

fillna_skipped(v, fill) ==
  v

fillna(v, fill) ==
  IF v = NaN THEN fill ELSE v

resample_max(rows) ==
  IF rows = <<>> THEN NaN ELSE Max({rows[i].rate : i \in DOMAIN rows})

resample_min(rows) ==
  IF rows = <<>> THEN NaN ELSE Min({rows[i].rate : i \in DOMAIN rows})

resample_first(rows) ==
  IF rows = <<>> THEN NaN ELSE rows[1].rate

resample_last(rows) ==
  IF rows = <<>> THEN NaN ELSE rows[Len(rows)].rate

\* One row of the chart: the bin labelled b.
candle(sorted, b) ==
  LET rows == bin_rows(sorted, b)
  IN  [date   |-> b,
       open   |-> resample_first(rows),
       high   |-> resample_max(rows),
       low    |-> resample_min(rows),
       close  |-> resample_last(rows),
       volume |-> fillna(resample_sum(rows), 0)]

make_candle_stick(df) ==
  LET sorted == sort_index(df)
      bins   == resample_bins(sorted)
  IN  [i \in DOMAIN bins |-> candle(sorted, bins[i])]

\* ------------------------------------------------------------ collaborators
\* Asset pairs "QUOTE_BASE", kept as the two fields pair.split("_") gives.
USDT_ETH ==
  <<"USDT", "ETH">>

USDT_DASH ==
  <<"USDT", "DASH">>

USDT_BTC ==
  <<"USDT", "BTC">>

\* A second pair with the base currency of USDT_ETH.
BTC_ETH ==
  <<"BTC", "ETH">>

\* A pair whose base currency the exchange does not list.
USDT_XXX ==
  <<"USDT", "XXX">>

\* get_currencies(): the exchange's currency table, indexed by symbol, in
\* the order the exchange lists the currencies.
get_currencies ==
  << [symbol |-> "BTC",  name |-> "Bitcoin"],
     [symbol |-> "DASH", name |-> "Dash"],
     [symbol |-> "ETH",  name |-> "Ethereum"] >>

\* The exchange's trades of one day of a pair, newest first (the order the
\* trade history endpoint returns them in).  DASH trades on day 0 only.
DayTrades(asset_pair, d) ==
  LET t0 == d * SecondsPerDay
  IN  IF asset_pair = USDT_ETH
        THEN << [date |-> t0 + SecondsPerMinute, rate |-> 11 + d, total |-> 2],
                [date |-> t0 + 1,                rate |-> 12 + d, total |-> 3],
                [date |-> t0,                    rate |-> 10 + d, total |-> 5] >>
      ELSE IF asset_pair = USDT_DASH /\ d = 0
        THEN << [date |-> t0 + 2 * SecondsPerMinute, rate |-> 20, total |-> 4],
                [date |-> t0 + 1,                    rate |-> 21, total |-> 1] >>
      ELSE <<>>

RECURSIVE TradeHistory(_, _)
TradeHistory(asset_pair, d) ==
  IF d < 0 THEN <<>>
  ELSE DayTrades(asset_pair, d) \o TradeHistory(asset_pair, d - 1)

\* Pairs the exchange trades; a request for any other pair is answered
\* with an error.
Listed(asset_pair) ==
  asset_pair \in {USDT_ETH, USDT_DASH}

\* get_trade_hist(asset_pair, start, end) when the request succeeds: the
\* trades with start <= date <= end; no rows when there are none.
get_trade_hist(asset_pair, start_, end_) ==
  SelectSeq(TradeHistory(asset_pair, MaxDays + 1),
            LAMBDA r : start_ <= r.date /\ r.date <= end_)

\* fetch_trades: the 'date' column parsed to timestamps becomes the index.
fetch_trades(asset_pair, start_, end_) ==
  get_trade_hist(asset_pair, start_, end_)

\* ------------------------------------------------------------------ state
VARIABLES
  cache,        \* zipline's cache: key -> chart stored under it
  pc,           \* where the ingest run (or the aggregation) stands
  asset_pairs,  \* the pair list create_bundle was given
  keys,         \* asset_pair_map.keys() in the order it was iterated
  equities,     \* the frames handed to asset_db_writer.write, in call order
  sid_map,      \* write_assets' result: sid -> asset pair
  start,        \* prepare_data's start
  end,          \* prepare_data's end
  pos,          \* loop iterations the generator has completed (= yields)
  yielded,      \* what the consumer received: (sid, frame), with the
                \* iteration's day and key kept beside it
  fetched,      \* get_trade_hist calls of this run, in call order
  cache0,       \* the cache as it was when this run began
  first,        \* what the first of two runs yielded and fetched
  trades,       \* the trades frame given to make_candle_stick on its own
  chart,        \* what make_candle_stick returned for it
  gens          \* two generators over one cache: each one's arguments,
                \* position and what it has tested, fetched, stored, yielded

vars ==
  <<cache, pc, asset_pairs, keys, equities, sid_map, start, end, pos,
    yielded, fetched, cache0, first, trades, chart, gens>>

runVars ==
  <<asset_pairs, keys, equities, sid_map, start, end>>

candleVars ==
  <<trades, chart>>

\* The empty dict / empty cache.
EmptyMap ==
  [k \in {} |-> 0]

\* ------------------------------------------------------------ write_assets
\* pair.split("_")[1]
base(pair) ==
  pair[2]

\* {pair.split("_")[1]: pair for pair in asset_pairs}: a later pair of the
\* same base currency replaces an earlier one.
asset_pair_map(pairs) ==
  [b \in {base(pairs[i]) : i \in DOMAIN pairs} |->
     pairs[Max({i \in DOMAIN pairs : base(pairs[i]) = b})]]

\* The orders in which a dict may iterate over its keys: insertion order on
\* CPython 3.7 and later, hash order (which a caller cannot rely on) before.
RECURSIVE Orders(_)
Orders(S) ==
  IF S = {} THEN {<<>>}
  ELSE UNION {{<<x>> \o o : o \in Orders(S \ {x})} : x \in S}

\* all_assets.ix[labels]: one row per label, in the order of the labels; a
\* label that is not in the index gives a row of missing values (.ix
\* reindexes a list of labels, it does not raise).
ix_filtered(all_assets, labels) ==
  SelectSeq(all_assets, LAMBDA r : r.symbol \in Range(labels))

ix(all_assets, labels) ==
  [i \in DOMAIN labels |->
     IF \E j \in DOMAIN all_assets : all_assets[j].symbol = labels[i]
       THEN LET j == CHOOSE j \in DOMAIN all_assets :
                       all_assets[j].symbol = labels[i]
            IN  [symbol |-> labels[i], asset_name |-> all_assets[j].name]
       ELSE [symbol |-> labels[i], asset_name |-> "NaN"]]

\* asset_df after reset_index and rename: row i-1 of the frame is asset_df[i].
asset_frame(order) ==
  ix(get_currencies, order)

\* asset_df['symbol'].to_dict() and the returned dict, keyed by row number.
write_assets_input_order(pairs, order) ==
  [k \in 0..(Len(pairs) - 1) |-> pairs[k + 1]]

write_assets(pairs, order) ==
  LET asset_df  == asset_frame(order)
      asset_map == [k \in 0..(Len(asset_df) - 1) |-> asset_df[k + 1].symbol]
  IN  [k \in DOMAIN asset_map |-> asset_pair_map(pairs)[asset_map[k]]]

\* asset_db_writer.write(equities=asset_df): one more call received by the
\* asset registry writer.
db_write_skipped(calls, asset_df) ==
  calls

db_write(calls, asset_df) ==
  Append(calls, asset_df)

\* ------------------------------------------------------------ prepare_data
\* day.strftime("%Y-%m-%d"): the calendar day, the time of day dropped.
strftime(day) ==
  day \div SecondsPerDay

\* "{}_{}".format(sid, ...): the pair of the two fields.
get_key_sid_dropped(sid, day) ==
  <<0, strftime(day)>>

get_key(sid, day) ==
  <<sid, strftime(day)>>

\* pd.date_range(start, end, freq='D', closed='left'): start, start + 1 day,
\* ... up to end, and the last one dropped when it is end itself.
date_range_closed(start_, end_) ==
  LET n == IF end_ < start_ THEN 0 ELSE (end_ - start_) \div SecondsPerDay + 1
  IN  [i \in 1..n |-> start_ + (i - 1) * SecondsPerDay]

date_range(start_, end_) ==
  LET all == date_range_closed(start_, end_)
  IN  IF all # <<>> /\ all[Len(all)] = end_
        THEN SubSeq(all, 1, Len(all) - 1)
        ELSE all

\* The iterations of the two nested loops, in the order they are run:
\* sid_map.items() in key order (outer), the days of the range (inner).
iterations_first_sid(sm, days) ==
  [i \in 1..Len(days) |-> [sid |-> 0, asset_pair |-> sm[0], day |-> days[i]]]

iterations_day_major(sm, days) ==
  [i \in 1..(Cardinality(DOMAIN sm) * Len(days)) |->
     LET sid == (i - 1) % Cardinality(DOMAIN sm)
     IN  [sid |-> sid, asset_pair |-> sm[sid],
          day |-> days[(i - 1) \div Cardinality(DOMAIN sm) + 1]]]

iterations(sm, days) ==
  [i \in 1..(Cardinality(DOMAIN sm) * Len(days)) |->
     LET sid == (i - 1) \div Len(days)
     IN  [sid |-> sid, asset_pair |-> sm[sid],
          day |-> days[((i - 1) % Len(days)) + 1]]]

\* `key not in cache`
miss_always(c, key) ==
  TRUE

miss_if_empty(c, key) ==
  IF key \in DOMAIN c THEN c[key] = <<>> ELSE TRUE

miss(c, key) ==
  key \notin DOMAIN c

\* day + timedelta(days=1, seconds=-1)
next_day(day) ==
  day + SecondsPerDay - 1

\* cache[key] = frame
setitem_only(c, key, frame) ==
  [k \in {key} |-> frame]

setitem(c, key, frame) ==
  [k \in DOMAIN c \cup {key} |-> IF k = key THEN frame ELSE c[k]]

\* The get_trade_hist call of an iteration, as logged.
call(e, ok) ==
  [asset_pair |-> e.asset_pair, start |-> e.day, end |-> next_day(e.day),
   key |-> get_key(e.sid, e.day), ok |-> ok,
   rows |-> IF ok THEN Len(fetch_trades(e.asset_pair, e.day, next_day(e.day)))
                  ELSE 0]

\* One iteration of the loop body up to its yield, the fetch succeeding:
\* the cache it leaves and the calls it made.
loop_body(c, e) ==
  LET key == get_key(e.sid, e.day)
  IN  IF miss(c, key)
        THEN [cache |-> setitem(c, key, make_candle_stick(
                          fetch_trades(e.asset_pair, e.day, next_day(e.day)))),
              calls |-> <<call(e, TRUE)>>]
        ELSE [cache |-> c, calls |-> <<>>]

\* What one next() on the generator runs: the body of the iteration after
\* the `n` completed ones, and no further than its yield.
resume_ahead(c, its, n) ==
  LET r1 == loop_body(c, its[n + 1])
  IN  IF n + 2 <= Len(its) /\ Listed(its[n + 2].asset_pair)
        THEN LET r2 == loop_body(r1.cache, its[n + 2])
             IN  [cache |-> r2.cache, calls |-> r1.calls \o r2.calls]
        ELSE r1

resume(c, its, n) ==
  loop_body(c, its[n + 1])

\* An exception raised in the generator is not caught anywhere in ingest:
\* it ends the generator and leaves minute_bar_writer.write and ingest.
on_error_retry ==
  "running"

on_error ==
  "raised"

\* ------------------------------------------------------------------ inputs
\* Midnights of the calendar's sessions.
Sessions ==
  {d * SecondsPerDay : d \in 0..MaxDays}

\* The sessions zipline passes to ingest: the calendar's first and last.
start_session ==
  0

end_session ==
  MaxDays * SecondsPerDay

\* Instants a caller passes as start and end of a bundle: a start at a
\* midnight or one second into day 0, an end at a midnight or one second
\* after it.
Starts ==
  Sessions \cup {1}

Ends ==
  Sessions \cup {s + 1 : s \in Sessions \ {MaxDays * SecondsPerDay}}

\* Instants given to prepare_data when it is called on its own.
Instants ==
  Ends \cup {s + 1 : s \in Starts \ {MaxDays * SecondsPerDay}}

\* Pair lists given to create_bundle.
PairLists ==
  { <<USDT_ETH>>, <<USDT_ETH, USDT_DASH>>, <<USDT_DASH, USDT_ETH>>,
    <<USDT_ETH, USDT_XXX>> }

\* sid maps given to prepare_data when it is called on its own.
SidMaps ==
  UNION {[0..(n - 1) -> {USDT_ETH, USDT_DASH}] : n \in 1..2}

\* An optional argument: <<>> for None, <<v>> for the value v.
Opt(S) ==
  {<<>>} \cup {<<v>> : v \in S}

\* Trades given to make_candle_stick on its own: times within one day, in
\* any order, repeated times included.
TradeTimes ==
  {0, 1, SecondsPerMinute, 2 * SecondsPerMinute + 1}

TradeKinds ==
  { [rate |-> 10, total |-> 5], [rate |-> 12, total |-> 3],
    [rate |-> 11, total |-> 2], [rate |-> 10, total |-> 2] }

Trades ==
  {[date |-> t, rate |-> k.rate, total |-> k.total] :
     t \in TradeTimes, k \in TradeKinds}

TradeSeqs ==
  UNION {[1..n -> Trades] : n \in 0..MaxTrades}

\* ----------------------------------------------------------------- actions
\* No generators side by side: one run at a time.
NoGens ==
  <<>>

NoRun ==
  [yielded |-> <<>>, fetched |-> <<>>, done |-> FALSE]

Init ==
  /\ cache = EmptyMap
  /\ pc = "idle"
  /\ asset_pairs = <<>>
  /\ keys = <<>>
  /\ equities = <<>>
  /\ sid_map = EmptyMap
  /\ start = 0
  /\ end = 0
  /\ pos = 0
  /\ yielded = <<>>
  /\ fetched = <<>>
  /\ cache0 = EmptyMap
  /\ first = NoRun
  /\ trades = <<>>
  /\ chart = <<>>
  /\ gens = NoGens

\* The iterations of the generator of the run in progress.
its ==
  iterations(sid_map, date_range(start, end))

\* create_bundle(...).ingest up to the call of minute_bar_writer.write: the
\* defaults of start and end, write_assets, and prepare_data(...), which
\* builds the generator and runs none of its body.  Runs follow one another.
ingest ==
  /\ pc = "idle"
  /\ \E pairs \in PairLists, start_arg \in Opt(Starts), end_arg \in Opt(Ends) :
       \E order \in Orders(DOMAIN asset_pair_map(pairs)) :
         /\ asset_pairs' = pairs
         /\ keys' = order
         /\ equities' = db_write(<<>>, asset_frame(order))
         /\ sid_map' = write_assets(pairs, order)
         /\ start' = IF start_arg = <<>> THEN start_session ELSE start_arg[1]
         /\ end' = IF end_arg = <<>> THEN end_session ELSE end_arg[1]
  /\ pc' = "running"
  /\ pos' = 0
  /\ yielded' = <<>>
  /\ fetched' = <<>>
  /\ cache0' = cache
  /\ UNCHANGED <<cache, first, trades, chart, gens>>

\* next(data) by the consumer, the generator reaching its next yield: on a
\* miss the fetch succeeded.
next_yield ==
  /\ pc = "running"
  /\ pos < Len(its)
  /\ LET e == its[pos + 1]
          key == get_key(e.sid, e.day)
          r == resume(cache, its, pos)
     IN  /\ miss(cache, key) => Listed(e.asset_pair)
         /\ cache' = r.cache
         /\ fetched' = fetched \o r.calls
         /\ yielded' = Append(yielded, [sid |-> e.sid, frame |-> r.cache[key],
                                        day |-> e.day, key |-> key])
  /\ pos' = pos + 1
  /\ UNCHANGED <<pc, runVars, cache0, first, trades, chart, gens>>

\* next(data), the fetch of a missing key failing: get_trade_hist raises
\* and nothing is stored.
next_raise ==
  /\ pc = "running"
  /\ pos < Len(its)
  /\ LET e == its[pos + 1]
     IN  /\ miss(cache, get_key(e.sid, e.day))
         /\ fetched' = Append(fetched, call(e, FALSE))
  /\ pc' = on_error
  /\ UNCHANGED <<cache, runVars, pos, yielded, cache0, first, trades, chart, gens>>

\* next(data) on the exhausted generator: minute_bar_writer.write and with
\* it ingest return.
next_stop ==
  /\ pc = "running"
  /\ pos = Len(its)
  /\ pc' = "done"
  /\ UNCHANGED <<cache, runVars, pos, yielded, fetched, cache0, first,
                 trades, chart, gens>>

\* The consumer stops pulling and drops the generator.
abandon ==
  /\ pc = "running"
  /\ pc' = "abandoned"
  /\ UNCHANGED <<cache, runVars, pos, yielded, fetched, cache0, first,
                 trades, chart, gens>>

\* The run is over (ingest returned or raised, or its consumer gave up) and
\* its frame is gone; the cache is what a later run finds.
leave ==
  /\ pc \in {"done", "raised", "abandoned"}
  /\ pc' = "idle"
  /\ asset_pairs' = <<>>
  /\ keys' = <<>>
  /\ equities' = <<>>
  /\ sid_map' = EmptyMap
  /\ start' = 0
  /\ end' = 0
  /\ pos' = 0
  /\ yielded' = <<>>
  /\ fetched' = <<>>
  /\ cache0' = cache
  /\ UNCHANGED <<cache, first, trades, chart, gens>>

Next ==
  \/ ingest
  \/ next_yield
  \/ next_raise
  \/ next_stop
  \/ abandon
  \/ leave

Spec ==
  Init /\ [][Next]_vars

\* ------------------------------------- prepare_data run twice over a cache
InitTwice ==
  /\ cache = EmptyMap
  /\ pc = "running"
  /\ asset_pairs = <<>>
  /\ keys = <<>>
  /\ equities = <<>>
  /\ sid_map \in SidMaps
  /\ start \in Instants
  /\ end \in Instants
  /\ pos = 0
  /\ yielded = <<>>
  /\ fetched = <<>>
  /\ cache0 = EmptyMap
  /\ first = NoRun
  /\ trades = <<>>
  /\ chart = <<>>
  /\ gens = NoGens

\* prepare_data called again with the same arguments and the same cache,
\* after the first generator was run to exhaustion.
rerun ==
  /\ pc = "done"
  /\ ~first.done
  /\ first' = [yielded |-> yielded, fetched |-> fetched, done |-> TRUE]
  /\ pc' = "running"
  /\ pos' = 0
  /\ yielded' = <<>>
  /\ fetched' = <<>>
  /\ cache0' = cache
  /\ UNCHANGED <<cache, runVars, trades, chart, gens>>

NextTwice ==
  \/ next_yield
  \/ next_stop
  \/ rerun

SpecTwice ==
  InitTwice /\ [][NextTwice]_vars

\* A next() on the generator has returned an element or found it exhausted
\* (the steps next_yield and next_stop, seen from the consumer).
pulled ==
  /\ pc = "running"
  /\ \/ pos' = pos + 1 /\ pc' = pc
     \/ pos' = pos /\ pc' = "done"

\* minute_bar_writer.write(data) iterates the generator to its end: while
\* the generator is running and no fetch raises, a next() is made and
\* returns.
SpecTwiceFair ==
  /\ InitTwice
  /\ [][NextTwice]_vars
  /\ WF_<<pc, pos>>(pulled)

\* ------------------------- prepare_data over a cache the caller filled
\* A frame the caller stored in the cache before the run.
CallerFrame ==
  <<[date |-> 0, open |-> 1, high |-> 1, low |-> 1, close |-> 1,
     volume |-> 1]>>

\* The cache argument of ingest: empty, or holding under the key of sid 0
\* and day 0 a frame of the caller's, or an empty frame.
CallerCaches ==
  {EmptyMap} \cup {[k \in {<<0, 0>>} |-> f] : f \in {CallerFrame, <<>>}}

InitPull ==
  /\ cache \in CallerCaches
  /\ pc = "running"
  /\ asset_pairs = <<>>
  /\ keys = <<>>
  /\ equities = <<>>
  /\ sid_map \in SidMaps
  /\ start \in Starts
  /\ end \in Ends
  /\ pos = 0
  /\ yielded = <<>>
  /\ fetched = <<>>
  /\ cache0 = cache
  /\ first = NoRun
  /\ trades = <<>>
  /\ chart = <<>>
  /\ gens = NoGens

NextPull ==
  \/ next_yield
  \/ next_raise
  \/ next_stop
  \/ rerun

SpecPull ==
  InitPull /\ [][NextPull]_vars

\* ------------------------------------ two generators sharing one cache
\* Everything but the cache and the two generators.
soloVars ==
  <<pc, asset_pairs, keys, equities, sid_map, start, end, pos, yielded,
    fetched, cache0, first, trades, chart>>

\* Ends of the ranges of the two generators: one day or two from day 0.
GenEnds ==
  {SecondsPerDay, 2 * SecondsPerDay}

\* A generator just built by prepare_data(start, end, sid_map, cache): none
\* of its body has run.  `at` is the statement it is at, `hand` the chart it
\* has computed and not yet stored.
NewGens ==
  {[sid_map |-> sm, start |-> 0, end |-> e, pos |-> 0, at |-> "test",
    hand |-> <<>>, tested |-> <<>>, fetched |-> <<>>, stored |-> <<>>,
    yielded |-> <<>>] : sm \in SidMaps, e \in GenEnds}

InitGens ==
  /\ cache = EmptyMap
  /\ pc = "generators"
  /\ asset_pairs = <<>>
  /\ keys = <<>>
  /\ equities = <<>>
  /\ sid_map = EmptyMap
  /\ start = 0
  /\ end = 0
  /\ pos = 0
  /\ yielded = <<>>
  /\ fetched = <<>>
  /\ cache0 = EmptyMap
  /\ first = NoRun
  /\ trades = <<>>
  /\ chart = <<>>
  /\ gens \in [1..2 -> NewGens]

gen_its(g) ==
  iterations(gens[g].sid_map, date_range(gens[g].start, gens[g].end))

\* The iteration generator g is in, and its key.
gen_e(g) ==
  gen_its(g)[gens[g].pos + 1]

gen_key(g) ==
  get_key(gen_e(g).sid, gen_e(g).day)

\* Runs in two processes, any statement of one between any two of the
\* other.  `if key not in cache:` -- the membership test, whose outcome is
\* logged beside the key.
test(g) ==
  /\ gens[g].at = "test"
  /\ gens[g].pos < Len(gen_its(g))
  /\ gens' = [gens EXCEPT
       ![g].at = IF miss(cache, gen_key(g)) THEN "fetch" ELSE "yield",
       ![g].tested = Append(@, [key |-> gen_key(g),
                                absent |-> gen_key(g) \notin DOMAIN cache])]
  /\ UNCHANGED <<cache, soloVars>>

\* trades = fetch_trades(...) and make_candle_stick(trades), the right-hand
\* side of the assignment of line 120, not yet stored.
fetch(g) ==
  /\ gens[g].at = "fetch"
  /\ gens' = [gens EXCEPT
       ![g].at = "store",
       ![g].hand = make_candle_stick(fetch_trades(gen_e(g).asset_pair,
                     gen_e(g).day, next_day(gen_e(g).day))),
       ![g].fetched = Append(@, call(gen_e(g), TRUE))]
  /\ UNCHANGED <<cache, soloVars>>

\* The fetch raising: the generator, and its run, end.
fetch_raise(g) ==
  /\ gens[g].at = "fetch"
  /\ gens' = [gens EXCEPT
       ![g].at = on_error,
       ![g].fetched = Append(@, call(gen_e(g), FALSE))]
  /\ UNCHANGED <<cache, soloVars>>

\* cache[key] = ...
store(g) ==
  /\ gens[g].at = "store"
  /\ cache' = setitem(cache, gen_key(g), gens[g].hand)
  /\ gens' = [gens EXCEPT
       ![g].at = "yield",
       ![g].hand = <<>>,
       ![g].stored = Append(@, gen_key(g))]
  /\ UNCHANGED soloVars

\* yield sid, cache[key]
yield(g) ==
  /\ gens[g].at = "yield"
  /\ gens' = [gens EXCEPT
       ![g].at = "test",
       ![g].pos = @ + 1,
       ![g].yielded = Append(@, [sid |-> gen_e(g).sid,
                                 frame |-> cache[gen_key(g)],
                                 day |-> gen_e(g).day, key |-> gen_key(g)])]
  /\ UNCHANGED <<cache, soloVars>>

\* The loops are over: the generator is exhausted.
stop(g) ==
  /\ gens[g].at = "test"
  /\ gens[g].pos = Len(gen_its(g))
  /\ gens' = [gens EXCEPT ![g].at = "done"]
  /\ UNCHANGED <<cache, soloVars>>

NextConcurrent ==
  \/ \E g \in DOMAIN gens : test(g)
  \/ \E g \in DOMAIN gens : fetch(g)
  \/ \E g \in DOMAIN gens : fetch_raise(g)
  \/ \E g \in DOMAIN gens : store(g)
  \/ \E g \in DOMAIN gens : yield(g)
  \/ \E g \in DOMAIN gens : stop(g)

SpecConcurrent ==
  InitGens /\ [][NextConcurrent]_vars

\* One thread pulling from both generators in any order: a next() on one
\* runs its loop body from the test to the yield before any next() on the
\* other begins.
pull(g) ==
  /\ gens[g].at = "test"
  /\ gens[g].pos < Len(gen_its(g))
  /\ LET r == resume(cache, gen_its(g), gens[g].pos)
     IN  /\ cache' = r.cache
         /\ gens' = [gens EXCEPT
              ![g].pos = @ + 1,
              ![g].tested = Append(@, [key |-> gen_key(g),
                                absent |-> gen_key(g) \notin DOMAIN cache]),
              ![g].fetched = @ \o r.calls,
              ![g].stored = IF r.cache = cache THEN @
                            ELSE Append(@, gen_key(g)),
              ![g].yielded = Append(@, [sid |-> gen_e(g).sid,
                                        frame |-> r.cache[gen_key(g)],
                                        day |-> gen_e(g).day,
                                        key |-> gen_key(g)])]
  /\ UNCHANGED soloVars

\* A next() whose fetch raises.
pull_raise(g) ==
  /\ gens[g].at = "test"
  /\ gens[g].pos < Len(gen_its(g))
  /\ miss(cache, gen_key(g))
  /\ gens' = [gens EXCEPT
       ![g].at = on_error,
       ![g].tested = Append(@, [key |-> gen_key(g),
                                absent |-> gen_key(g) \notin DOMAIN cache]),
       ![g].fetched = Append(@, call(gen_e(g), FALSE))]
  /\ UNCHANGED <<cache, soloVars>>

NextInterleaved ==
  \/ \E g \in DOMAIN gens : pull(g)
  \/ \E g \in DOMAIN gens : pull_raise(g)
  \/ \E g \in DOMAIN gens : stop(g)

SpecInterleaved ==
  InitGens /\ [][NextInterleaved]_vars

\* ------------------------------------------------ write_assets on its own
MaxPairs ==
  3

\* Pair lists given to write_assets: up to MaxPairs pairs, repeated pairs,
\* pairs of one base currency and unlisted base currencies included.
AssetPairLists ==
  UNION {[1..n -> {USDT_BTC, USDT_ETH, USDT_DASH, BTC_ETH, USDT_XXX}] :
           n \in 1..MaxPairs}

InitAssets ==
  /\ cache = EmptyMap
  /\ pc = "pairs"
  /\ asset_pairs \in AssetPairLists
  /\ keys = <<>>
  /\ equities = <<>>
  /\ sid_map = EmptyMap
  /\ start = 0
  /\ end = 0
  /\ pos = 0
  /\ yielded = <<>>
  /\ fetched = <<>>
  /\ cache0 = EmptyMap
  /\ first = NoRun
  /\ trades = <<>>
  /\ chart = <<>>
  /\ gens = NoGens

\* write_assets(asset_db_writer, asset_pairs), the dict iterating over its
\* keys in one of its possible orders.
resolve ==
  /\ pc = "pairs"
  /\ \E order \in Orders(DOMAIN asset_pair_map(asset_pairs)) :
       /\ keys' = order
       /\ equities' = db_write(<<>>, asset_frame(order))
       /\ sid_map' = write_assets(asset_pairs, order)
  /\ pc' = "resolved"
  /\ UNCHANGED <<cache, asset_pairs, start, end, pos, yielded, fetched,
                 cache0, first, trades, chart, gens>>

NextAssets ==
  resolve

SpecAssets ==
  InitAssets /\ [][NextAssets]_vars

\* ------------------------------------------- make_candle_stick on its own
InitCandle ==
  /\ cache = EmptyMap
  /\ pc = "trades"
  /\ asset_pairs = <<>>
  /\ keys = <<>>
  /\ equities = <<>>
  /\ sid_map = EmptyMap
  /\ start = 0
  /\ end = 0
  /\ pos = 0
  /\ yielded = <<>>
  /\ fetched = <<>>
  /\ cache0 = EmptyMap
  /\ first = NoRun
  /\ trades \in TradeSeqs
  /\ chart = <<>>
  /\ gens = NoGens

aggregate ==
  /\ pc = "trades"
  /\ chart' = make_candle_stick(trades)
  /\ pc' = "chart"
  /\ UNCHANGED <<cache, runVars, pos, yielded, fetched, cache0, first, trades, gens>>

NextCandle ==
  aggregate

SpecCandle ==
  InitCandle /\ [][NextCandle]_vars

\* ================================================================== claims
\* The days of the half-open range [start, end) at a stride of one day.
RangeDays ==
  {d \in start..(end - 1) : (d - start) % SecondsPerDay = 0}

\* The (sid, frame) elements of a sequence of yields.
Elements(ys) ==
  [i \in DOMAIN ys |-> <<ys[i].sid, ys[i].frame>>]

\* The calls of a log made for the key k.
CallsFor(log, k) ==
  {i \in DOMAIN log : log[i].key = k}

\* C1. Cache idempotence: prepare_data run to exhaustion twice over one
\* cache that starts empty, no fetch failing: every (sid, day) key of the
\* range is fetched exactly once in total, in the first run, the second run
\* fetches nothing, and the second run yields the same sequence of
\* (sid, frame) elements as the first.
C1_CacheIdempotence ==
  (first.done /\ pc = "done") =>
    /\ fetched = <<>>
    /\ \A sid \in DOMAIN sid_map, d \in RangeDays :
         \E i \in DOMAIN first.fetched :
           /\ CallsFor(first.fetched \o fetched,
                       <<sid, d \div SecondsPerDay>>) = {i}
           /\ first.fetched[i].asset_pair = sid_map[sid]
           /\ first.fetched[i].start = d
    /\ Len(first.fetched) = Cardinality(DOMAIN sid_map) * Cardinality(RangeDays)
    /\ Len(yielded) = Cardinality(DOMAIN sid_map) * Cardinality(RangeDays)
    /\ Elements(yielded) = Elements(first.yielded)

C1_Witness ==
  /\ first.done
  /\ pc = "done"
  /\ Cardinality(DOMAIN sid_map) = 2
  /\ sid_map[0] # sid_map[1]
  /\ Len(yielded) = 4
  /\ Len(first.fetched) = 4

\* C2. Write-once cache: over any sequence of runs, a value stored under a
\* cache key is never changed or removed by a later step.
C2_WriteOnce ==
  [][\A k \in DOMAIN cache : k \in DOMAIN cache' /\ cache'[k] = cache[k]]_vars

\* A later run has reached a key an earlier run stored, whose stored chart
\* is not the one a fetch for this run's pair would give, and yielded it.
C2_Witness ==
  \E i \in DOMAIN yielded :
    /\ yielded[i].key \in DOMAIN cache0
    /\ Listed(sid_map[yielded[i].sid])
    /\ cache[yielded[i].key] = cache0[yielded[i].key]
    /\ cache[yielded[i].key] #
         make_candle_stick(fetch_trades(sid_map[yielded[i].sid],
                             yielded[i].day, next_day(yielded[i].day)))

\* C3. Ordering guarantee: the yields are asset-major, day-minor: the first
\* is (sid 0, start); after (sid, day) comes (sid, day + 1 day), or, when
\* that day is the last of the range, (sid + 1, start).  The fetches on
\* cache misses come in the same order, each for the pair of its sid.
C3_Ordering ==
  /\ yielded # <<>> => yielded[1].sid = 0 /\ yielded[1].day = start
  /\ \A i \in 1..(Len(yielded) - 1) :
       LET a == yielded[i]
           b == yielded[i + 1]
       IN  \/ b.sid = a.sid /\ b.day = a.day + SecondsPerDay
           \/ /\ b.sid = a.sid + 1
              /\ b.day = start
              /\ a.day + SecondsPerDay >= end
  /\ \A i, j \in DOMAIN fetched :
       i < j =>
         \/ fetched[i].key[1] < fetched[j].key[1]
         \/ /\ fetched[i].key[1] = fetched[j].key[1]
            /\ fetched[i].start < fetched[j].start
  /\ \A i \in DOMAIN fetched :
       fetched[i].asset_pair = sid_map[fetched[i].key[1]]

\* Two assets over two days: (A,d1), (A,d2), (B,d1), (B,d2), all fetched.
C3_Witness ==
  /\ Len(yielded) = 4
  /\ Len(fetched) = 4
  /\ yielded[1].sid = 0 /\ yielded[2].sid = 0
  /\ yielded[3].sid = 1 /\ yielded[4].sid = 1
  /\ yielded[1].day = start /\ yielded[2].day = start + SecondsPerDay
  /\ yielded[3].day = start /\ yielded[4].day = start + SecondsPerDay

\* C4. Day-range half-openness: every day that is yielded, keyed or fetched
\* is start + k days with start <= day < end, so never end; when the
\* generator is exhausted the days yielded are exactly those; and with
\* start >= end nothing is yielded and nothing fetched.  (end is the given
\* end or, by default, end_session.)
C4_HalfOpen ==
  /\ \A i \in DOMAIN yielded :
       /\ yielded[i].day \in RangeDays
       /\ yielded[i].day # end
       /\ yielded[i].key[2] \in {d \div SecondsPerDay : d \in RangeDays}
  /\ \A i \in DOMAIN fetched :
       /\ fetched[i].start \in RangeDays
       /\ fetched[i].start # end
       /\ fetched[i].key[2] \in {d \div SecondsPerDay : d \in RangeDays}
  /\ pc = "done" => {yielded[i].day : i \in DOMAIN yielded} = RangeDays
  /\ start >= end => yielded = <<>> /\ fetched = <<>>

\* [day 0, day 2), with end the default end_session: days 0 and 1 only.
C4_Witness ==
  /\ pc = "done"
  /\ start = 0
  /\ end = 2 * SecondsPerDay
  /\ {yielded[i].day : i \in DOMAIN yielded} = {0, SecondsPerDay}
  /\ Len(fetched) >= 2

\* The number of next() calls the consumer has made on the generator.
Pulls ==
  pos + (IF pc \in {"raised", "done"} THEN 1 ELSE 0)

\* C5. Laziness and cancellation: nothing is fetched or stored before the
\* first pull; the fetches never outnumber the pulls; every fetch and every
\* key added to the cache belongs to an element the consumer has pulled; a
\* consumer that stopped after k pulls leaves a run that never fetches or
\* stores again.
C5_Lazy ==
  /\ [](/\ Len(yielded) = pos
        /\ Len(fetched) <= Pulls
        /\ (pc = "running" /\ pos = 0) => (fetched = <<>> /\ cache = cache0)
        /\ \A i \in DOMAIN fetched :
             \/ \E j \in DOMAIN yielded : yielded[j].key = fetched[i].key
             \/ pc = "raised" /\ i = Len(fetched)
        /\ DOMAIN cache \subseteq
             DOMAIN cache0 \cup {yielded[j].key : j \in DOMAIN yielded})
  /\ [][pc = "abandoned" => cache' = cache /\ pc' = "idle"]_vars

\* The consumer stopped after a pull that fetched, with an element still to
\* come whose key is not in the cache.
C5_Witness ==
  /\ pc = "abandoned"
  /\ pos >= 1
  /\ fetched # <<>>
  /\ pos < Len(its)
  /\ get_key(its[pos + 1].sid, its[pos + 1].day) \notin DOMAIN cache

\* C6. Fetch error: a failed fetch ends the run on that pull: it is the
\* last call of the run, made once, nothing is stored under its key, the
\* elements yielded before stay delivered, the keys cached before keep
\* their values, and the run takes no further step but to be left.
C6_FetchError ==
  /\ [](/\ \A i \in DOMAIN fetched :
             ~fetched[i].ok => (i = Len(fetched) /\ pc = "raised")
        /\ pc = "raised" =>
             /\ fetched # <<>>
             /\ ~fetched[Len(fetched)].ok
             /\ pos < Len(its)
             /\ fetched[Len(fetched)].key =
                  get_key(its[pos + 1].sid, its[pos + 1].day)
             /\ CallsFor(fetched, fetched[Len(fetched)].key) = {Len(fetched)}
             /\ fetched[Len(fetched)].key \notin DOMAIN cache
             /\ Len(yielded) = pos
             /\ \A k \in DOMAIN cache0 :
                  k \in DOMAIN cache /\ cache[k] = cache0[k]
             /\ \A j \in DOMAIN yielded :
                  /\ yielded[j].key \in DOMAIN cache
                  /\ cache[yielded[j].key] = yielded[j].frame)
  /\ [][pc = "raised" =>
         /\ pc' = "idle"
         /\ cache' = cache]_vars

\* A run that had stored a key of its own failed on a later pull.
C6_Witness ==
  /\ pc = "raised"
  /\ pos >= 1
  /\ \E j \in DOMAIN yielded : yielded[j].key \notin DOMAIN cache0

\* The symbols the currency metadata source knows.
KnownSymbols ==
  {get_currencies[i].symbol : i \in DOMAIN get_currencies}

\* C7. Resolution error is fail-fast: when a requested base currency is
\* absent from the metadata source, write_assets raises, the asset registry
\* writer is never called, no SidMap is built, and the run fetches nothing
\* and stores nothing.
C7_FailFast ==
  (\E i \in DOMAIN asset_pairs : base(asset_pairs[i]) \notin KnownSymbols) =>
    /\ pc = "raised"
    /\ equities = <<>>
    /\ sid_map = EmptyMap
    /\ fetched = <<>>
    /\ cache = cache0

\* The requested base currencies in the order the metadata source lists
\* them.
MetadataOrder(pairs) ==
  LET rows == SelectSeq(get_currencies,
                LAMBDA r : \E i \in DOMAIN pairs : base(pairs[i]) = r.symbol)
  IN  [i \in DOMAIN rows |-> rows[i].symbol]

InBucket(b) ==
  {i \in DOMAIN trades : b <= trades[i].date /\ trades[i].date < b + SecondsPerMinute}

\* Trade i comes before trade j by time; trades of one time in list order.
Before(i, j) ==
  \/ trades[i].date < trades[j].date
  \/ trades[i].date = trades[j].date /\ i <= j

RECURSIVE SumOf(_)
SumOf(S) ==
  IF S = {} THEN 0
  ELSE LET i == CHOOSE i \in S : TRUE
       IN  trades[i].total + SumOf(S \ {i})

\* C9. Bucket correctness: every minute that holds a trade has exactly one
\* row in the chart, labelled by the minute's start, with open the rate of
\* its first trade by time, close the rate of its last, high and low the
\* largest and smallest rate, and volume the sum of total.
C9_Buckets ==
  pc = "chart" =>
    \A m \in 0..(MinutesPerDay - 1) :
      LET b == m * SecondsPerMinute
          S == InBucket(b)
      IN  S # {} =>
            /\ Cardinality({r \in DOMAIN chart : chart[r].date = b}) = 1
            /\ \A r \in DOMAIN chart :
                 chart[r].date = b =>
                   /\ \E i \in S : /\ \A j \in S : Before(i, j)
                                    /\ chart[r].open = trades[i].rate
                   /\ \E i \in S : /\ \A j \in S : Before(j, i)
                                    /\ chart[r].close = trades[i].rate
                   /\ \E i \in S : /\ \A j \in S : trades[j].rate <= trades[i].rate
                                    /\ chart[r].high = trades[i].rate
                   /\ \E i \in S : /\ \A j \in S : trades[j].rate >= trades[i].rate
                                    /\ chart[r].low = trades[i].rate
                   /\ chart[r].volume = SumOf(S)

\* The example of the specification, on the scaled clock (00:00:10 and
\* 00:00:50 in the first minute, 00:01:05 in the second), given newest first.
C9_Witness ==
  /\ pc = "chart"
  /\ trades = << [date |-> SecondsPerMinute, rate |-> 11, total |-> 2],
                 [date |-> 1, rate |-> 12, total |-> 3],
                 [date |-> 0, rate |-> 10, total |-> 5] >>
  /\ chart = << [date |-> 0, open |-> 10, high |-> 12, low |-> 10,
                 close |-> 12, volume |-> 8],
                [date |-> SecondsPerMinute, open |-> 11, high |-> 11,
                 low |-> 11, close |-> 11, volume |-> 2] >>

\* A chart none of whose rows has a price.
NoPrice(frame) ==
  \A r \in DOMAIN frame :
    /\ frame[r].open = NaN
    /\ frame[r].high = NaN
    /\ frame[r].low = NaN
    /\ frame[r].close = NaN

\* C10. Empty-day condition: a fetch that returns no trades does not end
\* the run: that pull yields an element whose chart has no price, the chart
\* is stored under the day's key, and a key that is in the cache, an empty
\* day's included, is not fetched by a later pull or a later run.
C10_EmptyDay ==
  /\ \A i \in DOMAIN fetched :
       (fetched[i].ok /\ fetched[i].rows = 0) =>
         /\ fetched[i].key \in DOMAIN cache
         /\ NoPrice(cache[fetched[i].key])
         /\ \E j \in DOMAIN yielded :
              /\ yielded[j].key = fetched[i].key
              /\ yielded[j].frame = cache[fetched[i].key]
  /\ \A i \in DOMAIN fetched :
       /\ fetched[i].key \notin DOMAIN cache0
       /\ CallsFor(fetched, fetched[i].key) = {i}

\* A later run was yielded the chart of an empty day from the cache.
C10_Witness ==
  \E j \in DOMAIN yielded :
    /\ yielded[j].key \in DOMAIN cache0
    /\ cache0[yielded[j].key] = <<>>
    /\ yielded[j].frame = <<>>
    /\ sid_map[yielded[j].sid] = USDT_DASH
    /\ CallsFor(fetched, yielded[j].key) = {}

\* C12. Per-pull get-or-compute: a pull that yields the element of key k
\* finds k in the cache (stored by this run, an earlier run or the caller)
\* and then fetches nothing, stores nothing and yields the stored frame; or
\* finds it missing and then makes exactly one fetch, for the pair and day
\* of the element, stores the chart of the fetched trades under k, leaves
\* every other key alone, and yields what it stored.  Every yielded frame is
\* cache[k] at its yield, and stays so.
C12_GetOrCompute ==
  /\ [](\A i \in DOMAIN yielded : yielded[i].frame = cache[yielded[i].key])
  /\ [][Len(yielded') = Len(yielded) + 1 =>
          LET y == yielded'[Len(yielded')]
              k == y.key
          IN  /\ y.frame = cache'[k]
              /\ IF k \in DOMAIN cache
                   THEN /\ cache' = cache
                        /\ fetched' = fetched
                        /\ y.frame = cache[k]
                   ELSE /\ Len(fetched') = Len(fetched) + 1
                        /\ SubSeq(fetched', 1, Len(fetched)) = fetched
                        /\ fetched'[Len(fetched')] =
                             [asset_pair |-> sid_map[y.sid], start |-> y.day,
                              end |-> y.day + SecondsPerDay - 1, key |-> k,
                              ok |-> TRUE,
                              rows |-> Len(fetch_trades(sid_map[y.sid], y.day,
                                             y.day + SecondsPerDay - 1))]
                        /\ DOMAIN cache' = DOMAIN cache \cup {k}
                        /\ \A j \in DOMAIN cache : cache'[j] = cache[j]
                        /\ cache'[k] = make_candle_stick(
                             fetch_trades(sid_map[y.sid], y.day,
                                          y.day + SecondsPerDay - 1))]_vars

\* One run has yielded the caller's frame for a key the caller stored and a
\* fetched chart for a key that was missing; a second run over the same
\* cache has then yielded a frame the first run stored.
C12_Witness ==
  /\ first.done
  /\ \E i \in DOMAIN first.yielded : first.yielded[i].frame = CallerFrame
  /\ first.fetched # <<>>
  /\ fetched = <<>>
  /\ \E i \in DOMAIN yielded :
       /\ yielded[i].frame # CallerFrame
       /\ yielded[i].frame # <<>>

\* C13. Resolve-once-then-fetch: in every ingest run the metadata lookup and
\* the asset registry write happen once each, in the step that opens the
\* run, in which nothing is fetched, looked up in the cache or yielded; no
\* fetch, cache store or yield exists without them; and while the run is in
\* progress the SidMap, the registry's records and the key order they were
\* built from do not change.
C13_ResolveOnce ==
  /\ [](/\ pc = "idle" => equities = <<>> /\ fetched = <<>> /\ yielded = <<>>
        /\ pc \in {"running", "done", "raised", "abandoned"} =>
             /\ Len(equities) = 1
             /\ equities[1] = ix(get_currencies, keys)
             /\ DOMAIN sid_map = 0..(Len(equities[1]) - 1)
        /\ (fetched # <<>> \/ yielded # <<>> \/ cache # cache0) =>
             Len(equities) = 1)
  /\ [][pc = "running" =>
          sid_map' = sid_map /\ equities' = equities /\ keys' = keys]_vars
  /\ [][(equities' # equities /\ pc' # "idle") =>
          /\ pc = "idle"
          /\ Len(equities') = 1
          /\ fetched' = <<>>
          /\ yielded' = <<>>
          /\ cache' = cache]_vars

\* A run after an earlier one has ended: the registry was written once, and
\* fetches, cache hits and yields followed.
C13_Witness ==
  /\ pc = "done"
  /\ Len(equities) = 1
  /\ cache0 # EmptyMap
  /\ Len(fetched) >= 1
  /\ Len(yielded) > Len(fetched)

\* C14. Cache key identifies the asset: over any sequence of runs sharing
\* one cache, every element (sid, frame) a run yields carries the chart of
\* the trades of the pair that this run's SidMap gives to sid, for the day
\* of the element.
C14_KeyIdentifiesAsset ==
  \A i \in DOMAIN yielded :
    Listed(sid_map[yielded[i].sid]) =>
      yielded[i].frame =
        make_candle_stick(fetch_trades(sid_map[yielded[i].sid],
                            yielded[i].day, next_day(yielded[i].day)))

\* C15. Fetch interval: every element yielded on a cache miss has exactly
\* one fetch, made for the pair SidMap[sid] and the closed interval
\* [d, d + 1 day - 1 second] of its day d; the intervals fetched for distinct
\* days of one run are pairwise disjoint; and each interval lies within its
\* own calendar day.
C15_FetchInterval ==
  /\ \A i \in DOMAIN yielded :
       yielded[i].key \notin DOMAIN cache0 =>
         \E j \in DOMAIN fetched :
           /\ CallsFor(fetched, yielded[i].key) = {j}
           /\ fetched[j].start = yielded[i].day
           /\ fetched[j].asset_pair = sid_map[yielded[i].sid]
  /\ \A i \in DOMAIN fetched :
       /\ fetched[i].key \notin DOMAIN cache0
       /\ fetched[i].end = fetched[i].start + SecondsPerDay - 1
       /\ fetched[i].start \div SecondsPerDay = fetched[i].end \div SecondsPerDay
  /\ \A i, j \in DOMAIN fetched :
       fetched[i].start # fetched[j].start =>
         \/ fetched[i].end < fetched[j].start
         \/ fetched[j].end < fetched[i].start

\* C16. Bucket extent and fill: for a non-empty trade sequence the chart has
\* exactly one row for every minute from the minute of the earliest trade
\* through the minute of the latest, in ascending order, none missing and
\* none twice; a minute of that span without a trade has volume 0 and no
\* open, high, low or close (nothing is filled forward, no row is dropped).
C16_BucketExtent ==
  (pc = "chart" /\ trades # <<>>) =>
    LET minute(i) == (trades[i].date \div SecondsPerMinute) * SecondsPerMinute
        lo == Min({minute(i) : i \in DOMAIN trades})
        hi == Max({minute(i) : i \in DOMAIN trades})
    IN  /\ Len(chart) = (hi - lo) \div SecondsPerMinute + 1
        /\ \A r \in DOMAIN chart :
             /\ chart[r].date = lo + (r - 1) * SecondsPerMinute
             /\ InBucket(chart[r].date) = {} =>
                  /\ chart[r].volume = 0
                  /\ chart[r].open = NaN
                  /\ chart[r].high = NaN
                  /\ chart[r].low = NaN
                  /\ chart[r].close = NaN
             /\ InBucket(chart[r].date) # {} => chart[r].open # NaN

\* Trades in minutes 0 and 2 only, given latest first: three rows, the
\* middle one with volume 0 and no prices.
C16_Witness ==
  /\ pc = "chart"
  /\ trades = << [date |-> 2 * SecondsPerMinute + 1, rate |-> 12, total |-> 3],
                 [date |-> 0, rate |-> 10, total |-> 5] >>
  /\ chart = << [date |-> 0, open |-> 10, high |-> 10, low |-> 10,
                 close |-> 10, volume |-> 5],
                [date |-> SecondsPerMinute, open |-> NaN, high |-> NaN,
                 low |-> NaN, close |-> NaN, volume |-> 0],
                [date |-> 2 * SecondsPerMinute, open |-> 12, high |-> 12,
                 low |-> 12, close |-> 12, volume |-> 3] >>

\* C18. Termination and element count: for a finite sid_map and a finite
\* day range, no fetch failing and the consumer pulling on, the generator
\* ends; when it has ended it has yielded |sid_map| x (days of [start, end))
\* elements, exactly one for every (sid, day) of the run, and the cache
\* holds the key of every one of them.
C18_Termination ==
  /\ (pc = "running") ~> (pc = "done")
  /\ [](pc = "done" =>
          /\ Len(yielded) = Cardinality(DOMAIN sid_map) * Cardinality(RangeDays)
          /\ \A sid \in DOMAIN sid_map, d \in RangeDays :
               /\ Cardinality({i \in DOMAIN yielded :
                                 yielded[i].sid = sid /\ yielded[i].day = d}) = 1
               /\ <<sid, d \div SecondsPerDay>> \in DOMAIN cache)

\* A generator over two assets and two days has ended after four elements.
C18_Witness ==
  /\ pc = "done"
  /\ ~first.done
  /\ Cardinality(DOMAIN sid_map) = 2
  /\ Cardinality(RangeDays) = 2
  /\ Len(yielded) = 4
  /\ Cardinality(DOMAIN cache) = 4

\* C19. Cache frame effect: the keys a run has added to the cache are keys
\* (sid, date of day) with sid in its SidMap and day in [start, end); every
\* key that was in the cache when the run began, whether or not the run
\* reaches it, is still there with the value it had; so no key is deleted
\* and the set of cached keys only grows.
C19_CacheFrame ==
  /\ DOMAIN cache0 \subseteq DOMAIN cache
  /\ \A k \in DOMAIN cache0 : cache[k] = cache0[k]
  /\ \A k \in DOMAIN cache \ DOMAIN cache0 :
       /\ k[1] \in DOMAIN sid_map
       /\ \E d \in RangeDays : k[2] = d \div SecondsPerDay
       /\ \E i \in DOMAIN yielded : yielded[i].key = k

\* A run over one asset that began with keys of a second asset in the cache
\* has reached a key that was there and added one that was not.
C19_Witness ==
  /\ pc = "done"
  /\ Cardinality(DOMAIN sid_map) = 1
  /\ \E k \in DOMAIN cache0 : k[1] = 1
  /\ \E i \in DOMAIN yielded : yielded[i].key \in DOMAIN cache0
  /\ \E i \in DOMAIN yielded : yielded[i].key \notin DOMAIN cache0

\* The requested pairs have pairwise distinct base currencies, all of them
\* in the metadata source.
DistinctKnownBases ==
  /\ \A i, j \in DOMAIN asset_pairs :
       base(asset_pairs[i]) = base(asset_pairs[j]) => i = j
  /\ \A i \in DOMAIN asset_pairs : base(asset_pairs[i]) \in KnownSymbols

\* C20. SidMap completeness: when the requested pairs have pairwise distinct
\* base currencies that all exist in the metadata source, the SidMap that
\* write_assets returns has the ids 0..n-1 for the n requested pairs, every
\* requested pair under exactly one id, and under id i the requested pair
\* whose base currency is the symbol of the i-th record handed to the asset
\* registry writer.
C20_SidMapComplete ==
  (pc = "resolved" /\ DistinctKnownBases) =>
    /\ DOMAIN sid_map = 0..(Len(asset_pairs) - 1)
    /\ Len(equities) = 1
    /\ Len(equities[1]) = Len(asset_pairs)
    /\ \A i \in DOMAIN asset_pairs :
         Cardinality({k \in DOMAIN sid_map : sid_map[k] = asset_pairs[i]}) = 1
    /\ \A k \in DOMAIN sid_map :
         /\ sid_map[k] \in Range(asset_pairs)
         /\ base(sid_map[k]) = equities[1][k + 1].symbol

\* Three pairs of three listed base currencies, the registry's records in
\* an order that is not the order of the request.
C20_Witness ==
  /\ pc = "resolved"
  /\ asset_pairs = <<USDT_BTC, USDT_ETH, USDT_DASH>>
  /\ DistinctKnownBases
  /\ sid_map = (0 :> USDT_DASH @@ 1 :> USDT_BTC @@ 2 :> USDT_ETH)

\* The fetches of generator g for the key k that returned trades, and its
\* stores under k.
FetchesOf(g, k) ==
  {i \in DOMAIN gens[g].fetched :
     gens[g].fetched[i].key = k /\ gens[g].fetched[i].ok}

StoresOf(g, k) ==
  {i \in DOMAIN gens[g].stored : gens[g].stored[i] = k}

\* C11. Shared cache under concurrent runs: with the membership test, the
\* fetch and the store as separate steps of two runs over one cache, the
\* only thing that keeps a run from fetching and writing a key is its own
\* membership test: each run fetches a key only after its own test found
\* the key absent, at most once, and stores only what it fetched, at most
\* once; nothing bounds the writers of a key by one (C11_Witness: the same
\* key fetched twice and written by both runs).
C11_SharedCache ==
  \A g \in DOMAIN gens :
    /\ \A i \in DOMAIN gens[g].fetched :
         /\ \E t \in DOMAIN gens[g].tested :
              /\ gens[g].tested[t].key = gens[g].fetched[i].key
              /\ gens[g].tested[t].absent
         /\ Cardinality({j \in DOMAIN gens[g].fetched :
              gens[g].fetched[j].key = gens[g].fetched[i].key}) = 1
    /\ \A i \in DOMAIN gens[g].stored :
         /\ StoresOf(g, gens[g].stored[i]) = {i}
         /\ FetchesOf(g, gens[g].stored[i]) # {}
         /\ gens[g].stored[i] \in DOMAIN cache
    /\ \A i \in DOMAIN gens[g].yielded :
         gens[g].yielded[i].key \in DOMAIN cache

\* The same key has been fetched by both runs and written by both.
C11_Witness ==
  \E k \in DOMAIN cache :
    /\ FetchesOf(1, k) # {} /\ FetchesOf(2, k) # {}
    /\ StoresOf(1, k) # {} /\ StoresOf(2, k) # {}

\* C17. Cooperative interleaving is safe: two generators over one cache,
\* pulled by one thread in any order, each pull running from the membership
\* test to the yield before the next pull begins: every key is fetched (a
\* fetch that returned trades) at most once by the two together, is stored
\* at most once, and elements of the two generators with one key carry the
\* same frame.
C17_Cooperative ==
  /\ \A k \in DOMAIN cache :
       /\ Cardinality(FetchesOf(1, k)) + Cardinality(FetchesOf(2, k)) = 1
       /\ Cardinality(StoresOf(1, k)) + Cardinality(StoresOf(2, k)) = 1
  /\ \A g \in DOMAIN gens :
       /\ \A i \in DOMAIN gens[g].stored : gens[g].stored[i] \in DOMAIN cache
       /\ \A i \in DOMAIN gens[g].fetched :
            gens[g].fetched[i].ok => gens[g].fetched[i].key \in DOMAIN cache
  /\ \A i \in DOMAIN gens[1].yielded, j \in DOMAIN gens[2].yielded :
       gens[1].yielded[i].key = gens[2].yielded[j].key =>
         gens[1].yielded[i].frame = gens[2].yielded[j].frame

\* Both generators have run to their ends over the same two keys, each of
\* them having fetched one of the keys and found the other in the cache.
C17_Witness ==
  /\ gens[1].at = "done" /\ gens[2].at = "done"
  /\ Len(gens[1].yielded) = 2 /\ Len(gens[2].yielded) = 2
  /\ {gens[1].yielded[i].key : i \in 1..2} =
       {gens[2].yielded[i].key : i \in 1..2}
  /\ Len(gens[1].fetched) = 1 /\ Len(gens[2].fetched) = 1
====
